---- MODULE Spec2Model ----
(***************************************************************************)
(* Model of techlead_app.py: the capacity-constrained greedy assignment of *)
(* developer-intern groups to tech leads (compute_assignments), and the    *)
(* load-or-compute / status-callback layer around it.                      *)
(***************************************************************************)
EXTENDS Integers, Sequences, FiniteSets, TLC

\* ---------------------------------------------------------------- constants
GROUP_SIZE == 5
\* The literal 5 of "len(assignments[email]) < 5".
CAPACITY == 5

\* ------------------------------------------------------------------- bounds
\* Interns of affiliation "a" / "b" in the roster given to compute_assignments.
MaxA == 31
MaxB == 5
\* Tech leads in the roster given to compute_assignments.
MaxTechs == 2
\* The runs of compute_assignments on the same rosters: a first and a second.
RunIds == {1, 2}
\* Rows of dev_y.csv / tech_y.csv in the application runs.
MaxAppDevs == 6
MaxAppTechs == 2
\* In each held group, the members whose status checkbox the users click.
MaxClicked == 2

\* The browser sessions of the application.
SessionIds == {1, 2}

VARIABLES
    devs_csv,        \* the intern roster (dev_y.csv)
    techs_csv,       \* the tech-lead roster (tech_y.csv)
    c,               \* the locals of the compute_assignments call in progress
    run,             \* how many compute_assignments calls have started
    results,         \* what the finished compute_assignments calls returned
    assignment_file, \* final_assignments.pkl: whether it exists, and its content
    status_file,     \* intern_statuses.pkl: whether it exists, and its content
    session,         \* st.session_state of each browser session
    computed         \* how many times the application ran compute_assignments

vars == <<devs_csv, techs_csv, c, run, results, assignment_file, status_file,
          session, computed>>

\* The affiliation keys, in the sorted order DataFrame.groupby iterates them.
Affiliations == <<"a", "b">>

\* --------------------------------------------------------------------- text
\* A CSV cell is a key and the form it is written in: "padded" stands for any
\* spelling with surrounding blanks or upper case, "clean" for the stripped
\* lower-case spelling.  Two cells are the same string iff they are equal.
Cell(k, padded) == [key |-> k, form |-> IF padded THEN "padded" ELSE "clean"]

\* str.strip().str.lower()
StripLower(t) == [key |-> t.key, form |-> "clean"]

\* ------------------------------------------------------------ small helpers
Range(s) == {s[i] : i \in 1..Len(s)}

Min(x, y) == IF x < y THEN x ELSE y

RECURSIVE SeqsUpTo(_, _)
\* All sequences over S of length at most n.
SeqsUpTo(S, n) ==
    IF n = 0 THEN {<<>>}
    ELSE LET shorter == SeqsUpTo(S, n - 1)
         IN  shorter \cup {Append(s, x) : s \in {t \in shorter : Len(t) = n - 1}, x \in S}

\* ------------------------------------------------------------------ rosters
\* The intern roster: nA interns of affiliation "a" then nB of "b", every
\* email distinct; in a messy file some cells are padded.
DevRoster(nA, nB, messy) ==
    [i \in 1..(nA + nB) |->
        [email |-> Cell(<<"dev", i>>, messy /\ i % 2 = 1),
         aff   |-> Cell(IF i <= nA THEN "a" ELSE "b", messy /\ i % 3 = 1)]]

\* The tech-lead roster: one row per entry of affs, every email distinct.
TechRoster(affs, messy) ==
    [j \in 1..Len(affs) |->
        [email |-> Cell(<<"tech", j>>, messy /\ j % 2 = 1),
         aff   |-> Cell(affs[j], messy /\ j % 2 = 0)]]

\* ------------------------------------------------------------------ shuffle
\* numpy.random.RandomState(42).permutation(n), 1-based, for n = 0, 1, 2, ...
\* (MT19937 seeded with 42, Fisher-Yates from the last index down).
Seed42Permutation == <<
    <<>>,
    <<1>>,
    <<2, 1>>,
    <<1, 2, 3>>,
    <<2, 4, 1, 3>>,
    <<2, 5, 3, 1, 4>>,
    <<1, 2, 6, 3, 5, 4>>,
    <<1, 2, 6, 3, 5, 4, 7>>,
    <<2, 6, 1, 8, 3, 5, 4, 7>>,
    <<8, 2, 6, 1, 9, 3, 5, 4, 7>>,
    <<9, 2, 6, 1, 8, 3, 10, 5, 4, 7>>,
    <<6, 1, 10, 11, 3, 2, 9, 5, 8, 4, 7>>,
    <<11, 10, 1, 9, 6, 3, 2, 12, 5, 8, 4, 7>>,
    <<12, 10, 1, 9, 6, 3, 2, 13, 5, 8, 11, 4, 7>>,
    <<10, 12, 1, 13, 6, 9, 3, 2, 14, 5, 8, 11, 4, 7>>,
    <<10, 12, 1, 14, 6, 9, 3, 2, 15, 5, 8, 11, 13, 4, 7>>,
    <<1, 2, 6, 15, 14, 12, 9, 10, 3, 16, 5, 8, 11, 13, 4, 7>>,
    <<1, 2, 6, 16, 12, 15, 9, 14, 3, 10, 17, 5, 8, 11, 13, 4, 7>>,
    <<1, 2, 9, 6, 4, 14, 17, 16, 12, 3, 10, 18, 5, 13, 8, 11, 15, 7>>,
    <<1, 6, 12, 2, 9, 17, 4, 14, 16, 18, 3, 10, 19, 5, 13, 8, 11, 15, 7>>,
    <<1, 18, 16, 2, 9, 6, 12, 4, 19, 17, 14, 3, 10, 20, 5, 13, 8, 11, 15, 7>>,
    <<1, 18, 16, 2, 9, 6, 12, 4, 19, 17, 14, 3, 10, 21, 5, 13, 8, 11, 15, 20,
      7>>,
    <<1, 14, 9, 2, 16, 6, 21, 12, 4, 5, 18, 13, 19, 17, 3, 10, 22, 8, 11, 15,
      20, 7>>,
    <<16, 10, 1, 9, 18, 13, 2, 14, 6, 3, 12, 21, 4, 5, 19, 17, 22, 23, 8, 11,
      15, 20, 7>>,
    <<9, 17, 1, 19, 12, 10, 14, 2, 22, 6, 3, 13, 16, 4, 5, 23, 18, 21, 24, 8,
      11, 15, 20, 7>>,
    <<9, 17, 1, 24, 12, 10, 14, 2, 23, 6, 3, 13, 16, 4, 5, 21, 18, 22, 19,
      25, 8, 11, 15, 20, 7>>,
    <<9, 17, 1, 25, 12, 10, 14, 2, 24, 6, 3, 13, 16, 4, 5, 22, 18, 23, 19,
      26, 21, 8, 11, 15, 20, 7>>,
    <<9, 14, 10, 22, 1, 12, 17, 18, 13, 25, 2, 5, 6, 3, 16, 23, 4, 26, 24,
      19, 27, 21, 8, 11, 15, 20, 7>>,
    <<10, 26, 9, 22, 1, 13, 18, 23, 12, 14, 16, 2, 5, 6, 3, 17, 24, 4, 27,
      25, 19, 28, 21, 8, 11, 15, 20, 7>>,
    <<28, 17, 13, 23, 9, 10, 22, 1, 27, 14, 16, 12, 18, 2, 5, 6, 3, 25, 4,
      24, 26, 19, 29, 21, 8, 11, 15, 20, 7>>,
    <<28, 16, 24, 18, 9, 10, 29, 25, 13, 1, 5, 17, 6, 14, 12, 23, 2, 3, 26,
      4, 22, 27, 19, 30, 21, 8, 11, 15, 20, 7>>,
    <<28, 16, 24, 18, 9, 10, 30, 25, 13, 1, 5, 17, 6, 14, 12, 23, 2, 3, 26,
      4, 22, 27, 19, 31, 21, 8, 11, 15, 29, 20, 7>>,
    <<30, 16, 25, 18, 9, 10, 31, 26, 13, 1, 5, 17, 6, 14, 12, 24, 2, 3, 27,
      4, 22, 28, 23, 19, 32, 21, 8, 11, 15, 29, 20, 7>>,
    <<32, 16, 27, 18, 9, 10, 20, 22, 13, 1, 5, 17, 6, 14, 12, 25, 2, 3, 30,
      4, 28, 24, 31, 23, 19, 26, 7, 21, 33, 8, 11, 15, 29>>,
    <<16, 20, 28, 27, 9, 25, 22, 13, 33, 10, 1, 5, 17, 18, 6, 14, 12, 2, 3,
      31, 4, 30, 24, 32, 23, 19, 26, 7, 21, 34, 8, 11, 15, 29>>,
    <<27, 14, 25, 22, 16, 30, 20, 13, 9, 17, 10, 34, 1, 5, 18, 28, 6, 12, 2,
      3, 33, 4, 31, 24, 32, 11, 23, 19, 26, 7, 21, 35, 8, 15, 29>>,
    <<36, 14, 27, 31, 17, 32, 22, 13, 9, 18, 10, 35, 1, 5, 30, 16, 20, 6, 12,
      2, 25, 3, 34, 4, 33, 24, 28, 11, 23, 19, 26, 7, 21, 8, 15, 29>>,
    <<18, 14, 5, 30, 36, 26, 7, 27, 25, 17, 9, 16, 13, 33, 10, 20, 1, 32, 6,
      12, 2, 28, 22, 3, 37, 35, 4, 34, 24, 31, 11, 23, 19, 21, 8, 15, 29>>,
    <<34, 37, 5, 14, 31, 27, 7, 28, 25, 16, 18, 9, 17, 13, 20, 10, 33, 1, 26,
      6, 12, 2, 38, 22, 3, 30, 36, 4, 35, 24, 32, 11, 23, 19, 21, 8, 15, 29>>,
    <<34, 37, 5, 14, 31, 27, 7, 28, 25, 16, 18, 9, 17, 13, 20, 10, 33, 1, 26,
      6, 12, 2, 38, 22, 3, 30, 36, 4, 35, 24, 32, 11, 23, 19, 21, 8, 15, 29,
      39>>,
    <<20, 17, 16, 27, 5, 13, 38, 28, 40, 7, 26, 10, 14, 32, 35, 9, 18, 25, 1,
      34, 6, 12, 2, 30, 22, 3, 31, 37, 4, 36, 24, 33, 11, 23, 19, 21, 8, 15,
      29, 39>>,
    <<25, 14, 9, 26, 5, 41, 20, 40, 30, 7, 27, 13, 18, 10, 16, 33, 17, 36,
      35, 1, 28, 6, 12, 2, 31, 22, 3, 32, 38, 4, 37, 24, 34, 11, 23, 19, 21,
      8, 15, 29, 39>>,
    <<26, 14, 9, 27, 5, 40, 20, 30, 31, 7, 28, 13, 18, 10, 16, 34, 17, 37,
      36, 1, 25, 6, 12, 41, 2, 32, 22, 3, 33, 42, 4, 38, 24, 35, 11, 23, 19,
      21, 8, 15, 29, 39>>,
    <<38, 25, 26, 37, 35, 40, 5, 13, 9, 4, 7, 28, 32, 20, 18, 14, 41, 16, 10,
      17, 31, 27, 1, 30, 42, 6, 12, 33, 2, 43, 22, 3, 34, 24, 36, 11, 23, 19,
      21, 8, 15, 29, 39>>,
    <<38, 25, 26, 37, 35, 41, 5, 13, 9, 4, 7, 28, 32, 20, 18, 14, 42, 16, 10,
      17, 31, 27, 1, 30, 43, 6, 12, 33, 2, 40, 22, 3, 34, 24, 36, 11, 23, 19,
      44, 21, 8, 15, 29, 39>>
>>

\* Mutant of Sample: the shuffle without random_state, so that each run draws
\* another order (here: the rows rotated by the number of the run).
SampleUnseeded(df) ==
    [i \in 1..Len(df) |-> df[((i - 1 + run) % Len(df)) + 1]]

\* df.sample(frac=1, random_state=RANDOM_SEED).reset_index(drop=True)
Sample(df) ==
    [i \in 1..Len(df) |-> df[Seed42Permutation[Len(df) + 1][i]]]

\* ------------------------------------------------------- pandas operations
\* devs.drop_duplicates(subset=['Email Address']): the first row of each
\* email as written is kept.
DropDuplicates(df) ==
    LET first(i) == \A j \in 1..(i - 1) : df[j].email # df[i].email
        keep == {i \in 1..Len(df) : first(i)}
        RECURSIVE take(_)
        take(i) == IF i > Len(df) THEN <<>>
                   ELSE (IF i \in keep THEN <<df[i]>> ELSE <<>>) \o take(i + 1)
    IN  take(1)

\* df['Affiliation'].str.strip().str.lower()
NormalizeAffiliation(df) ==
    [i \in 1..Len(df) |-> [df[i] EXCEPT !.aff = StripLower(df[i].aff)]]

\* df['Email Address'].str.strip().str.lower()
NormalizeEmail(df) ==
    [i \in 1..Len(df) |-> [df[i] EXCEPT !.email = StripLower(df[i].email)]]

\* The rows of df whose Affiliation cell is the string `college`, in order.
GetGroup(df, college) == SelectSeq(df, LAMBDA r : r.aff = college)

\* The keys of df.groupby("Affiliation"), sorted.
GroupKeys(df) ==
    LET n == Len(Affiliations)
        all == [i \in 1..(2 * n) |->
                   IF i <= n THEN Cell(Affiliations[i], TRUE)
                   ELSE Cell(Affiliations[i - n], FALSE)]
    IN  SelectSeq(all, LAMBDA a : \E i \in 1..Len(df) : df[i].aff = a)

\* [dev_group.iloc[i:i+GROUP_SIZE] for i in range(0, len(dev_group), GROUP_SIZE)]
Chunks(dev_group) ==
    [k \in 1..((Len(dev_group) + GROUP_SIZE - 1) \div GROUP_SIZE) |->
        SubSeq(dev_group, (k - 1) * GROUP_SIZE + 1,
               Min(k * GROUP_SIZE, Len(dev_group)))]

\* ------------------------------------------------ defaultdict(list) access
\* assignments is a function whose domain is the set of keys the dict holds.
\* Reading assignments[email] inserts the key with an empty list.
Touch(asg, email) ==
    IF email \in DOMAIN asg THEN asg
    ELSE [e \in (DOMAIN asg) \cup {email} |-> IF e = email THEN <<>> ELSE asg[e]]

\* What assignments[email] evaluates to (without recording the insertion).
Groups(asg, email) == IF email \in DOMAIN asg THEN asg[email] ELSE <<>>

\* assignments[email].append(group)
AppendGroup(asg, email, group) ==
    [Touch(asg, email) EXCEPT ![email] = Append(@, group)]

\* Mutant of IsComplete: any chunk counts as a group.
IsCompleteAnySize(group) == Len(group) > 0

\* len(group) == GROUP_SIZE
IsComplete(group) == Len(group) = GROUP_SIZE

\* Mutant of HasCapacity: the comparison off by one.
HasCapacityOffByOne(asg, email) == Len(Groups(asg, email)) <= CAPACITY

\* len(assignments[email]) < 5
HasCapacity(asg, email) == Len(Groups(asg, email)) < CAPACITY

\* ------------------------------------------------------ compute_assignments
EmptyDict == [e \in {} |-> <<>>]

Idle ==
    [pc |-> "idle", devs |-> <<>>, techs |-> <<>>, colleges |-> <<>>, ci |-> 1,
     intern_groups |-> <<>>, gi |-> 1, techs_in_college |-> <<>>,
     tech_index |-> 0, assignments |-> EmptyDict, leftout_groups |-> <<>>,
     leftover_techs |-> <<>>, assignable_leftover_groups |-> <<>>, ai |-> 1,
     final_unassigned_devs |-> <<>>, final_unassigned_techs |-> <<>>]

\* Lines 37-51: shuffle, normalise, empty assignments, group by affiliation.
Prepare(devs, techs) ==
    LET d == NormalizeAffiliation(Sample(devs))
        t == NormalizeEmail(NormalizeAffiliation(Sample(techs)))
    IN  [Idle EXCEPT !.pc = "college", !.devs = d, !.techs = t,
                     !.colleges = GroupKeys(d)]

\* Lines 54-59: the head of one iteration of "for college, dev_group".
EnterCollege(s) ==
    LET college == s.colleges[s.ci]
    IN  [s EXCEPT !.pc = "group",
                  !.intern_groups = Chunks(GetGroup(s.devs, college)),
                  !.techs_in_college = GetGroup(s.techs, college),
                  !.tech_index = 0,
                  !.gi = 1]

RECURSIVE ScanTechsRoundRobin(_, _, _, _)
\* Mutant of ScanTechs: tech_index advances after every assignment.
ScanTechsRoundRobin(asg, tic, ti, group) ==
    IF ti >= Len(tic) THEN [asg |-> asg, ti |-> ti, assigned |-> FALSE]
    ELSE LET email == tic[ti + 1].email
             seen == Touch(asg, email)
         IN  IF HasCapacity(seen, email)
             THEN [asg |-> AppendGroup(seen, email, group),
                   ti |-> ti + 1, assigned |-> TRUE]
             ELSE ScanTechsRoundRobin(seen, tic, ti + 1, group)

RECURSIVE ScanTechs(_, _, _, _)
\* Lines 64-76: the while loop that finds the group a tech lead of its college.
ScanTechs(asg, tic, ti, group) ==
    IF ti >= Len(tic) THEN [asg |-> asg, ti |-> ti, assigned |-> FALSE]
    ELSE LET email == tic[ti + 1].email
             seen == Touch(asg, email)
         IN  IF HasCapacity(seen, email)
             THEN LET put == AppendGroup(seen, email, group)
                  IN  [asg |-> put,
                       ti |-> IF Len(put[email]) = CAPACITY THEN ti + 1 ELSE ti,
                       assigned |-> TRUE]
             ELSE ScanTechs(seen, tic, ti + 1, group)

\* Lines 60-83: one iteration of "for group in intern_groups", and the move to
\* the next college when the loop ends or breaks.
AssignGroup(s) ==
    LET group == s.intern_groups[s.gi]
        advance(t, brk) ==
            IF brk \/ s.gi = Len(s.intern_groups)
            THEN [t EXCEPT !.pc = "college", !.ci = @ + 1]
            ELSE [t EXCEPT !.gi = @ + 1]
    IN  IF ~IsComplete(group)
        THEN advance([s EXCEPT !.leftout_groups = Append(@, group)], FALSE)
        ELSE IF s.techs_in_college # <<>>
        THEN LET r == ScanTechs(s.assignments, s.techs_in_college,
                                s.tech_index, group)
             IN  advance([s EXCEPT !.assignments = r.asg,
                                   !.tech_index = r.ti,
                                   !.leftout_groups =
                                       IF r.assigned THEN @ ELSE Append(@, group)],
                         FALSE)
        ELSE advance([s EXCEPT !.leftout_groups = @ \o s.intern_groups], TRUE)

RECURSIVE TouchAll(_, _)
TouchAll(asg, emails) ==
    IF emails = <<>> THEN asg
    ELSE TouchAll(Touch(asg, Head(emails)), Tail(emails))

\* The normalised emails of the rows of the data frame df, as a set.
EmailsOf(df) == {StripLower(df[i].email) : i \in 1..Len(df)}

\* The normalised Email Address column of the tech leads.
TechEmails(techs) == [i \in 1..Len(techs) |-> StripLower(techs[i].email)]

\* Mutant of LeftoverTechs: only the tech leads phase 1 gave nothing.
LeftoverTechsUnusedOnly(asg, techs) ==
    SelectSeq(TechEmails(techs), LAMBDA e : Groups(asg, e) = <<>>)

\* Line 86: the tech leads that still have capacity after phase 1.
LeftoverTechs(asg, techs) ==
    SelectSeq(TechEmails(techs), LAMBDA e : HasCapacity(asg, e))

\* Lines 85-90: the tech leads and the groups of the global pass.
CollectLeftover(s) ==
    [s EXCEPT !.pc = "phase2",
              !.assignments = TouchAll(@, TechEmails(s.techs)),
              !.leftover_techs = LeftoverTechs(s.assignments, s.techs),
              !.assignable_leftover_groups = SelectSeq(s.leftout_groups, IsComplete),
              !.ai = 1]

\* list.remove(x): the list without its first x.
Remove(list, x) ==
    LET i == CHOOSE k \in 1..Len(list) :
                 list[k] = x /\ \A j \in 1..(k - 1) : list[j] # x
    IN  SubSeq(list, 1, i - 1) \o SubSeq(list, i + 1, Len(list))

RECURSIVE GiveToAll(_, _, _)
GiveToAll(asg, emails, group) ==
    IF emails = <<>> THEN asg
    ELSE GiveToAll(IF HasCapacity(asg, Head(emails))
                   THEN AppendGroup(asg, Head(emails), group) ELSE asg,
                   Tail(emails), group)

\* Mutant of ReassignGroup: the inner loop without its break.
ReassignGroupNoBreak(s) ==
    [s EXCEPT !.ai = @ + 1,
              !.assignments = GiveToAll(@, s.leftover_techs,
                                        s.assignable_leftover_groups[s.ai])]

\* Lines 92-101: one iteration of "for group in assignable_leftover_groups".
ReassignGroup(s) ==
    LET group == s.assignable_leftover_groups[s.ai]
        lt == s.leftover_techs
        fits == {i \in 1..Len(lt) : HasCapacity(s.assignments, lt[i])}
    IN  IF fits = {} THEN [s EXCEPT !.ai = @ + 1]
        ELSE LET i == CHOOSE k \in fits : \A j \in fits : k <= j
                 email == lt[i]
                 put == AppendGroup(s.assignments, email, group)
             IN  [s EXCEPT !.ai = @ + 1,
                           !.assignments = put,
                           !.leftover_techs =
                               IF Len(put[email]) = CAPACITY
                               THEN Remove(lt, email) ELSE lt]

\* The groups the dict holds, over all keys.
HeldGroups(asg) == UNION {Range(asg[e]) : e \in DOMAIN asg}

\* Mutant of AssignedEmails: the emails as written, not normalised.
AssignedEmailsAsWritten(asg) ==
    UNION {{g[i].email : i \in 1..Len(g)} : g \in HeldGroups(asg)}

\* Lines 107-110: all_assigned_dev_emails.
AssignedEmails(asg) ==
    UNION {{StripLower(g[i].email) : i \in 1..Len(g)} : g \in HeldGroups(asg)}

\* Lines 104-119: the unassigned interns and tech leads, and the return.
Flatten(s) ==
    LET all_assigned_dev_emails == AssignedEmails(s.assignments)
        assigned_tech_emails == DOMAIN s.assignments
    IN  [s EXCEPT !.pc = "done",
                  !.final_unassigned_devs =
                      SelectSeq(s.devs, LAMBDA r :
                          StripLower(r.email) \notin all_assigned_dev_emails),
                  !.final_unassigned_techs =
                      SelectSeq(s.techs, LAMBDA r :
                          StripLower(r.email) \notin assigned_tech_emails)]

\* What compute_assignments returns.
Returned(s) ==
    [assignments |-> s.assignments,
     unassigned_devs |-> s.final_unassigned_devs,
     unassigned_techs |-> s.final_unassigned_techs]

\* The statement compute_assignments executes next in state s.
StepOf(s) ==
    CASE s.pc = "college" /\ s.ci <= Len(s.colleges) -> EnterCollege(s)
      [] s.pc = "college" /\ s.ci > Len(s.colleges) -> CollectLeftover(s)
      [] s.pc = "group" -> AssignGroup(s)
      [] s.pc = "phase2" /\ s.ai <= Len(s.assignable_leftover_groups) -> ReassignGroup(s)
      [] s.pc = "phase2" /\ s.ai > Len(s.assignable_leftover_groups) -> Flatten(s)

RECURSIVE RunToReturn(_)
RunToReturn(s) == IF s.pc = "done" THEN s ELSE RunToReturn(StepOf(s))

\* compute_assignments(devs, techs), run from its first line to its return.
compute_assignments(devs, techs) == Returned(RunToReturn(Prepare(devs, techs)))

\* ------------------------------------------------------------------ actions
\* A pickle file that does not exist (its content is then never read).
NoAssignmentFile == [exists |-> FALSE, data |-> Returned(Idle)]

NoStatusFile == [exists |-> FALSE, data |-> EmptyDict]

NoSession == [loaded |-> FALSE, assignments |-> EmptyDict,
              unassigned_devs |-> <<>>, unassigned_techs |-> <<>>,
              intern_statuses |-> EmptyDict]

AppUntouched ==
    UNCHANGED <<assignment_file, status_file, session, computed>>

\* compute_assignments(devs, techs) is called on the rosters.
Call ==
    /\ c.pc \in {"idle", "done"}
    /\ run + 1 \in RunIds
    /\ run' = run + 1
    /\ c' = Prepare(devs_csv, techs_csv)
    /\ UNCHANGED <<devs_csv, techs_csv, results>>
    /\ AppUntouched

Phase1College ==
    /\ c.pc = "college"
    /\ c.ci <= Len(c.colleges)
    /\ c' = EnterCollege(c)
    /\ UNCHANGED <<devs_csv, techs_csv, run, results>>
    /\ AppUntouched

Phase1Group ==
    /\ c.pc = "group"
    /\ c' = AssignGroup(c)
    /\ UNCHANGED <<devs_csv, techs_csv, run, results>>
    /\ AppUntouched

Phase2Collect ==
    /\ c.pc = "college"
    /\ c.ci > Len(c.colleges)
    /\ c' = CollectLeftover(c)
    /\ UNCHANGED <<devs_csv, techs_csv, run, results>>
    /\ AppUntouched

Phase2Group ==
    /\ c.pc = "phase2"
    /\ c.ai <= Len(c.assignable_leftover_groups)
    /\ c' = ReassignGroup(c)
    /\ UNCHANGED <<devs_csv, techs_csv, run, results>>
    /\ AppUntouched

Return ==
    /\ c.pc = "phase2"
    /\ c.ai > Len(c.assignable_leftover_groups)
    /\ c' = Flatten(c)
    /\ results' = Append(results, Returned(c'))
    /\ UNCHANGED <<devs_csv, techs_csv, run>>
    /\ AppUntouched

\* The rosters compute_assignments is run on.
Init ==
    /\ \E nA \in 0..MaxA, nB \in 0..MaxB, messy \in BOOLEAN,
          affs \in SeqsUpTo(Range(Affiliations), MaxTechs) :
           /\ devs_csv = DevRoster(nA, nB, messy)
           /\ techs_csv = TechRoster(affs, messy)
    /\ c = Idle
    /\ run = 0
    /\ results = <<>>
    /\ assignment_file = NoAssignmentFile
    /\ status_file = NoStatusFile
    /\ session = [s \in SessionIds |-> NoSession]
    /\ computed = 0

Next ==
    \/ Call
    \/ Phase1College
    \/ Phase1Group
    \/ Phase2Collect
    \/ Phase2Group
    \/ Return

Spec == Init /\ [][Next]_vars

\* -------------------------------------------------------------- application
\* load_data(): the two CSV files, the interns without repeated emails.
load_data == [devs |-> DropDuplicates(devs_csv), techs |-> techs_csv]

\* Mutant of LoadOrCompute: the snapshot is ignored and computed again.
LoadOrComputeAlways(file) ==
    LET v == compute_assignments(load_data.devs, load_data.techs)
    IN  [value |-> v, file |-> [exists |-> TRUE, data |-> v], ran |-> 1]

\* Lines 125-139: the snapshot if final_assignments.pkl exists, else the
\* computed assignment, which is then written to the file.
LoadOrCompute(file) ==
    IF file.exists
    THEN [value |-> file.data, file |-> file, ran |-> 0]
    ELSE LET v == compute_assignments(load_data.devs, load_data.techs)
         IN  [value |-> v, file |-> [exists |-> TRUE, data |-> v], ran |-> 1]

\* Lines 141-151: the status table if intern_statuses.pkl exists, else every
\* intern of the roster Active.
LoadStatuses(file) ==
    IF file.exists THEN file.data
    ELSE [e \in EmailsOf(load_data.devs) |-> TRUE]

\* Lines 199-206: a script run of session s; load_data_assignments_statuses
\* is called when the session holds no assignment yet.
RunScript(s) ==
    /\ ~session[s].loaded
    /\ LET got == LoadOrCompute(assignment_file)
       IN  /\ assignment_file' = got.file
           /\ computed' = computed + got.ran
           /\ session' = [session EXCEPT ![s] =
                  [loaded |-> TRUE,
                   assignments |-> got.value.assignments,
                   unassigned_devs |-> got.value.unassigned_devs,
                   unassigned_techs |-> got.value.unassigned_techs,
                   intern_statuses |-> LoadStatuses(status_file)]]
    /\ UNCHANGED <<devs_csv, techs_csv, c, run, results, status_file>>

\* The browser of session s reloads the page: Streamlit starts it with an
\* empty st.session_state, so the next script run loads again.
Reload(s) ==
    /\ session[s].loaded
    /\ session' = [session EXCEPT ![s] = NoSession]
    /\ UNCHANGED <<devs_csv, techs_csv, c, run, results, assignment_file,
                   status_file, computed>>

\* Lines 219-223, 270-293: the interns whose checkbox a looked-up tech lead
\* of the roster is shown (of each group, those the users click).
Checkboxes(s) ==
    LET asg == session[s].assignments
        shown == {e \in DOMAIN asg : e \in EmailsOf(load_data.techs)}
    IN  UNION {{StripLower(g[i].email) : i \in 1..Min(Len(g), MaxClicked)} :
               g \in UNION {Range(asg[e]) : e \in shown}}

\* intern_statuses.get(intern_email, True)
StatusOf(statuses, email) ==
    IF email \in DOMAIN statuses THEN statuses[email] ELSE TRUE

\* Mutant of SetStatus: the table is rebuilt with only the toggled entry kept.
SetStatusOnly(statuses, email, value) ==
    [e \in (DOMAIN statuses) \cup {email} |-> IF e = email THEN value ELSE TRUE]

\* Line 166: intern_statuses_dict[intern_email] = value
SetStatus(statuses, email, value) ==
    [e \in (DOMAIN statuses) \cup {email} |->
        IF e = email THEN value ELSE statuses[e]]

\* Lines 156-168: the checkbox of intern_email is clicked in session s; the
\* callback stores the new checkbox value in the session's table and dumps the
\* whole table to intern_statuses.pkl.
Callback(s, intern_email) ==
    /\ session[s].loaded
    /\ intern_email \in Checkboxes(s)
    /\ LET value == ~StatusOf(session[s].intern_statuses, intern_email)
           dict == SetStatus(session[s].intern_statuses, intern_email, value)
       IN  /\ session' = [session EXCEPT ![s].intern_statuses = dict]
           /\ status_file' = [exists |-> TRUE, data |-> dict]
    /\ UNCHANGED <<devs_csv, techs_csv, c, run, results, assignment_file,
                   computed>>

\* The CSV files the application is started on.
InitApp ==
    /\ \E n \in 0..MaxAppDevs, messy \in BOOLEAN, dup \in BOOLEAN,
          affs \in SeqsUpTo(Range(Affiliations), MaxAppTechs) :
           /\ devs_csv = LET d == DevRoster(n, 0, messy)
                         IN  IF dup /\ n > 0 THEN Append(d, d[1]) ELSE d
           /\ techs_csv = TechRoster(affs, messy)
    /\ c = Idle
    /\ run = 0
    /\ results = <<>>
    /\ assignment_file = NoAssignmentFile
    /\ status_file = NoStatusFile
    /\ session = [s \in SessionIds |-> NoSession]
    /\ computed = 0

NextApp ==
    \/ \E s \in SessionIds : RunScript(s)
    \/ \E s \in SessionIds : Reload(s)
    \/ \E s \in SessionIds : \E e \in Checkboxes(s) : Callback(s, e)

SpecApp == InitApp /\ [][NextApp]_vars

\* ------------------------------------------------- vocabulary of the claims
\* The positions <<email, k>> of the groups the dict asg holds.
Slots(asg) == UNION {{<<e, k>> : k \in 1..Len(asg[e])} : e \in DOMAIN asg}

\* The normalised emails of the members of group g.
Members(g) == {StripLower(g[i].email) : i \in 1..Len(g)}

\* How many interns of the roster have affiliation a (a clean cell).
RosterCount(a) ==
    Cardinality({i \in 1..Len(devs_csv) : StripLower(devs_csv[i].aff) = a})

CleanAffiliations == {Cell(Affiliations[i], FALSE) : i \in 1..Len(Affiliations)}

RECURSIVE CompleteGroupsOf(_)
\* The complete groups the affiliations in S yield.
CompleteGroupsOf(S) ==
    IF S = {} THEN 0
    ELSE LET a == CHOOSE x \in S : TRUE
         IN  (RosterCount(a) \div GROUP_SIZE) + CompleteGroupsOf(S \ {a})

\* The complete groups the roster yields, over all affiliations.
TotalCompleteGroups == CompleteGroupsOf(CleanAffiliations)

\* The affiliation of the tech lead with normalised email e.
TechAffiliation(e) ==
    LET i == CHOOSE k \in 1..Len(c.techs) : c.techs[k].email = e
    IN  c.techs[i].aff

\* Every group formed so far: held by a tech lead or in the leftover pool.
FormedGroups == HeldGroups(c.assignments) \cup Range(c.leftout_groups)

NoTechOver(asg) == \A e \in DOMAIN asg : Len(asg[e]) <= CAPACITY

\* C1: at every step of compute_assignments and in every returned result, no
\* tech lead holds more than 5 groups.
C1_CapacityRespected ==
    /\ NoTechOver(c.assignments)
    /\ c.pc = "done" => NoTechOver(results[Len(results)].assignments)

\* C1 witness: a tech lead filled to 5 by its own affiliation, and a group of
\* that affiliation that phase 2 then gave to another tech lead.
C1_Witness ==
    /\ c.pc = "done"
    /\ \E e, f \in DOMAIN c.assignments :
          /\ e # f
          /\ Len(c.assignments[e]) = CAPACITY
          /\ \A g \in Range(c.assignments[e]) : g[1].aff = TechAffiliation(e)
          /\ \E g \in Range(c.assignments[f]) :
                /\ g \in Range(c.assignable_leftover_groups)
                /\ g[1].aff = TechAffiliation(e)

DisjointGroups(asg) ==
    /\ \A p, q \in Slots(asg) : p # q => asg[p[1]][p[2]] # asg[q[1]][q[2]]
    /\ \A p, q \in Slots(asg) :
          p # q => Members(asg[p[1]][p[2]]) \cap Members(asg[q[1]][q[2]]) = {}
    /\ \A p \in Slots(asg) :
          LET g == asg[p[1]][p[2]]
          IN  \A i, j \in 1..Len(g) :
                 i # j => StripLower(g[i].email) # StripLower(g[j].email)

\* C2: no intern is in two held groups or twice in one, and no group is held
\* twice (by two tech leads or by one); the leftover pool lists no group twice.
C2_NoDoubleAssignment ==
    /\ DisjointGroups(c.assignments)
    /\ \A i, j \in 1..Len(c.leftout_groups) :
          i # j => c.leftout_groups[i] # c.leftout_groups[j]
    /\ c.pc = "done" => results[Len(results)].assignments = c.assignments

\* C2 witness: a result in which two tech leads hold groups, one of them a
\* group that went through the leftover pool.
C2_Witness ==
    /\ c.pc = "done"
    /\ \E p, q \in Slots(c.assignments) :
          /\ p[1] # q[1]
          /\ c.assignments[p[1]][p[2]] \in Range(c.leftout_groups)

\* C3: in the result every intern of the roster is either in a held group or
\* in the unassigned list, never both and never listed twice; the unassigned
\* interns are exactly the members of the incomplete groups and of the complete
\* groups no tech lead holds.
C3_InternsPartitioned ==
    c.pc = "done" =>
        LET assigned == UNION {Members(g) : g \in HeldGroups(c.assignments)}
            unassigned == EmailsOf(c.final_unassigned_devs)
            notPlaced == {g \in Range(c.leftout_groups) :
                             Len(g) < GROUP_SIZE
                             \/ g \notin HeldGroups(c.assignments)}
        IN  /\ assigned \cup unassigned = EmailsOf(devs_csv)
            /\ assigned \cap unassigned = {}
            /\ Cardinality(unassigned) = Len(c.final_unassigned_devs)
            /\ unassigned = UNION {Members(g) : g \in notPlaced}

\* C3 witness: a result with assigned interns, an incomplete group and a
\* complete group that was never placed.
C3_Witness ==
    /\ c.pc = "done"
    /\ HeldGroups(c.assignments) # {}
    /\ \E g \in Range(c.leftout_groups) : Len(g) < GROUP_SIZE
    /\ \E g \in Range(c.leftout_groups) :
          Len(g) = GROUP_SIZE /\ g \notin HeldGroups(c.assignments)

\* C4: the unassigned-tech-leads output is exactly the tech leads that hold
\* no group at the end of phase 2.
C4_UnassignedTechsAreTheEmptyOnes ==
    c.pc = "done" =>
        EmailsOf(c.final_unassigned_techs)
            = {e \in EmailsOf(techs_csv) : Groups(c.assignments, e) = <<>>}

\* C5: every held group has exactly 5 interns of one affiliation; an
\* affiliation of n interns forms n div 5 complete groups, and its last chunk
\* of n mod 5 interns is never held by a tech lead.
C5_CompleteGroupsOnly ==
    /\ \A g \in HeldGroups(c.assignments) :
          /\ Len(g) = GROUP_SIZE
          /\ \A i \in 1..Len(g) : g[i].aff = g[1].aff
    /\ c.pc = "group" =>
          LET n == RosterCount(c.colleges[c.ci])
              gs == c.intern_groups
          IN  /\ Cardinality({k \in 1..Len(gs) : Len(gs[k]) = GROUP_SIZE})
                    = n \div GROUP_SIZE
              /\ \A k \in 1..Len(gs) :
                    Len(gs[k]) # GROUP_SIZE
                        => k = Len(gs) /\ Len(gs[k]) = n % GROUP_SIZE
              /\ \A k \in 1..Len(gs) :
                    \A i \in 1..Len(gs[k]) : gs[k][i].aff = c.colleges[c.ci]
    /\ c.pc \in {"phase2", "done"} =>
          \A a \in CleanAffiliations :
             LET n == RosterCount(a)
                 of == {g \in FormedGroups : g[1].aff = a}
             IN  /\ Cardinality({g \in of : Len(g) = GROUP_SIZE})
                       = n \div GROUP_SIZE
                 /\ \A g \in of :
                       Len(g) # GROUP_SIZE
                           => /\ Len(g) = n % GROUP_SIZE
                              /\ Members(g) \cap AssignedEmails(c.assignments) = {}

\* C5 witness: the spec's example, 12 interns of one affiliation and one tech
\* lead, who ends with 2 groups while 2 interns stay unassigned.
C5_Witness ==
    /\ c.pc = "done"
    /\ Len(devs_csv) = 12
    /\ RosterCount(Cell("a", FALSE)) = 12
    /\ Len(techs_csv) = 1
    /\ \E e \in DOMAIN c.assignments : Len(c.assignments[e]) = 2
    /\ Len(c.final_unassigned_devs) = 2

C8_Phase2Exhaustive ==
    c.pc = "done" =>
        /\ (\E g \in Range(c.leftout_groups) :
               Len(g) = GROUP_SIZE /\ g \notin HeldGroups(c.assignments))
           => \A e \in EmailsOf(techs_csv) :
                 Len(Groups(c.assignments, e)) = CAPACITY
        /\ Cardinality(Slots(c.assignments))
              = Min(TotalCompleteGroups, CAPACITY * Len(techs_csv))

\* C8 witness: groups of an affiliation without tech leads, some placed on a
\* tech lead of another affiliation and one left unplaced.
C8_Witness ==
    /\ c.pc = "done"
    /\ \E g, h \in Range(c.assignable_leftover_groups) :
          /\ g[1].aff = h[1].aff
          /\ \A k \in 1..Len(c.techs) : c.techs[k].aff # g[1].aff
          /\ g \in HeldGroups(c.assignments)
          /\ h \notin HeldGroups(c.assignments)

\* C9: a group is held by a tech lead of another affiliation only if phase 1
\* deferred it, and phase 1 defers a complete group only when its affiliation
\* has no tech lead below 5 groups; phase 1 fills the tech leads of an
\* affiliation in order, each one only after the earlier ones hold 5.
C9_AffiliationFirst ==
    /\ \A p \in Slots(c.assignments) :
          LET g == c.assignments[p[1]][p[2]]
          IN  g[1].aff # TechAffiliation(p[1])
                 => /\ c.pc \in {"phase2", "done"}
                    /\ g \in Range(c.leftout_groups)
    /\ (c.pc = "college" /\ c.ci > Len(c.colleges)) =>
          \A g \in Range(c.leftout_groups) :
             Len(g) = GROUP_SIZE =>
                \A k \in 1..Len(c.techs) :
                   c.techs[k].aff = g[1].aff
                      => Len(Groups(c.assignments, c.techs[k].email)) = CAPACITY
    /\ c.pc \in {"college", "group"} =>
          \A a \in CleanAffiliations :
             LET tic == GetGroup(c.techs, a)
             IN  \A i, j \in 1..Len(tic) :
                    (i < j /\ Groups(c.assignments, tic[j].email) # <<>>)
                       => Len(Groups(c.assignments, tic[i].email)) = CAPACITY

\* C9 witness: the second tech lead of an affiliation holds a group, and a
\* group of that affiliation is held by a tech lead of another one.
C9_Witness ==
    /\ c.pc = "done"
    /\ \E p \in Slots(c.assignments) :
          c.assignments[p[1]][p[2]][1].aff # TechAffiliation(p[1])
    /\ \E a \in CleanAffiliations :
          /\ Len(GetGroup(c.techs, a)) >= 2
          /\ Groups(c.assignments, GetGroup(c.techs, a)[2].email) # <<>>

\* The status of intern a that intern_statuses.pkl holds (Active while the
\* file does not exist).
Persisted(file, a) == IF file.exists THEN StatusOf(file.data, a) ELSE TRUE

\* C6: the persisted status of an intern changes only in a step that toggles
\* that intern in some session; a write for another intern never changes it.
C6_StatusWritesIndependent ==
    [][\A a \in EmailsOf(devs_csv) :
          Persisted(status_file', a) # Persisted(status_file, a)
             => \E s \in SessionIds :
                   /\ session[s].loaded
                   /\ session'[s].loaded
                   /\ StatusOf(session'[s].intern_statuses, a)
                         # StatusOf(session[s].intern_statuses, a)]_vars

SameAssignment(sess, snapshot) ==
    /\ sess.assignments = snapshot.assignments
    /\ sess.unassigned_devs = snapshot.unassigned_devs
    /\ sess.unassigned_techs = snapshot.unassigned_techs

\* C10: the application computes the assignment at most once; the snapshot,
\* once written, never changes and every loaded session holds exactly it; a
\* status callback changes one entry of its session's table, writes that table
\* to the status store and leaves assignment and snapshot alone.
C10_ComputedOnceStatusFramed ==
    /\ [](/\ computed <= 1
          /\ (computed = 1) = assignment_file.exists
          /\ \A s \in SessionIds :
                session[s].loaded
                   => /\ assignment_file.exists
                      /\ SameAssignment(session[s], assignment_file.data))
    /\ [][/\ assignment_file.exists => assignment_file' = assignment_file
          /\ \A s \in SessionIds :
                (/\ session[s].loaded
                 /\ session'[s].loaded
                 /\ session'[s] # session[s])
                   => LET old == session[s].intern_statuses
                          new == session'[s].intern_statuses
                      IN  /\ DOMAIN new = DOMAIN old
                          /\ Cardinality({e \in DOMAIN old : new[e] # old[e]}) = 1
                          /\ status_file' = [exists |-> TRUE, data |-> new]
                          /\ SameAssignment(session'[s], session[s])
                          /\ assignment_file' = assignment_file
                          /\ computed' = computed
                          /\ \A t \in SessionIds \ {s} : session'[t] = session[t]
         ]_vars

\* C10 witness: the snapshot was computed once, both sessions loaded it, one
\* of them after a reload, and a status was saved.
C10_Witness ==
    /\ computed = 1
    /\ \A s \in SessionIds : session[s].loaded
    /\ HeldGroups(assignment_file.data.assignments) # {}
    /\ status_file.exists
    /\ \E e \in DOMAIN status_file.data : ~status_file.data[e]

====
